---- MODULE Spec2Model ----
(***************************************************************************)
(* Model of the FinTx error-log pollers (agent.py, ai_agent.py,            *)
(* monitor_errors.py) and of the retry decorator of main.py.               *)
(*                                                                         *)
(* Spec       : the three poller entry points running cycles one after the *)
(*              other against the shared dbo.ErrorLog and their sqlite     *)
(*              watermark stores.                                          *)
(* SpecRetry  : one call of a with_retry-wrapped business operation.       *)
(* SpecRetryFair : SpecRetry with the fairness of sequential code.          *)
(* SpecLoop   : ai_agent.py --loop, cycles separated by time.sleep.        *)
(* SpecLoopFair : SpecLoop with a loop that goes on and collaborators that *)
(*              succeed again and again.                                   *)
(* SpecReport : classify_and_plan and the report builders on drawn inputs. *)
(* SpecStore  : the get and set functions of the sqlite watermark stores.  *)
(***************************************************************************)
EXTENDS Integers, Sequences, FiniteSets, TLC

(***************************************************************************)
(* Bounds of the model.                                                    *)
(***************************************************************************)
\* Largest ErrorID the data source assigns (an IDENTITY value).
MaxErrorId == 14
\* Largest max_attempts a wrapper is built with.
MaxMaxAttempts == 3

\* Longest list of new errors, and of health findings, handed to a report
\* builder.
MaxItems == 2

\* Smallest ErrorID of the source: the first id of the spec's scenario A,
\* whose source returns the ids 12, 13, 14.
MinErrorId == 12

ErrorIds == MinErrorId..MaxErrorId

(***************************************************************************)
(* Text.  A Python str is modelled as a sequence of one-character strings. *)
(***************************************************************************)
Digits == <<"0", "1", "2", "3", "4", "5", "6", "7", "8", "9">>

DigitChar(d) == Digits[d + 1]

DigitVal(c) == CHOOSE d \in 0..9 : Digits[d + 1] = c

IsDigitChar(c) == \E d \in 0..9 : Digits[d + 1] = c

\* str(n) of a non-negative int: its decimal digits, most significant first.
RECURSIVE str(_)
str(n) ==
    IF n < 10 THEN <<DigitChar(n)>>
    ELSE Append(str(n \div 10), DigitChar(n % 10))

\* int(s) of a text made of decimal digits.
RECURSIVE int(_)
int(s) ==
    IF Len(s) = 1 THEN DigitVal(s[1])
    ELSE 10 * int(SubSeq(s, 1, Len(s) - 1)) + DigitVal(s[Len(s)])

\* Optional values: <<>> is None, <<x>> is the value x.
None == <<>>

InSet(opt, S) == opt # None /\ opt[1] \in S

\* The character U+00B2 (superscript two): str.isdigit() is True for it and
\* int() raises ValueError on it.
SuperTwo == "^2"

\* str.isdigit(): non-empty and every character is a digit character.
isdigit(tok) ==
    tok # <<>> /\ \A i \in 1..Len(tok) : IsDigitChar(tok[i]) \/ tok[i] = SuperTwo

\* int(tok) raises ValueError unless every character is a decimal digit.
int_raises(tok) == \E i \in 1..Len(tok) : ~IsDigitChar(tok[i])

\* How a piece of code ends: it returns a value or raises.
Returns(v) == [raised |-> FALSE, value |-> v]

Raises == [raised |-> TRUE, value |-> None]

(***************************************************************************)
(* Small helpers on sets and sequences.                                    *)
(***************************************************************************)
SetMax(S) == CHOOSE m \in S : \A x \in S : x <= m

SetMin(S) == CHOOSE m \in S : \A x \in S : m <= x

MaxOrZero(S) == IF S = {} THEN 0 ELSE SetMax(S)

RECURSIVE SortAsc(_)
SortAsc(S) ==
    IF S = {} THEN <<>>
    ELSE <<SetMin(S)>> \o SortAsc(S \ {SetMin(S)})

RECURSIVE Flatten(_)
Flatten(qq) ==
    IF qq = <<>> THEN <<>> ELSE Head(qq) \o Flatten(Tail(qq))

\* agent.py and ai_agent.py keep their watermark in .agent_state.sqlite,
\* monitor_errors.py keeps its own in .monitor_state.sqlite, and neither side
\* ever opens the other's file: a behaviour follows the cycles of one of the
\* two installations against the shared dbo.ErrorLog.
VARIABLES
    install,        \* the scripts scheduled on the host: "agent" or "monitor"
    errorLog,       \* set of ErrorIDs of the rows of dbo.ErrorLog
    agentState,     \* table s of .agent_state.sqlite: rows <<k, v>>, v TEXT
    monitorState,   \* table s of .monitor_state.sqlite: rows <<k, v>>, v INTEGER
    prog,           \* entry point of the current (or most recent) cycle
    pc,             \* position of that cycle; "idle" when no cycle runs
    last,           \* local: watermark read at the start of the cycle
    rows,           \* local: rows fetched in the cycle, in fetch order
    issues,         \* local: flattened health findings of the cycle
    smtpOk,         \* SMTP_* settings of the process are complete
    sendIdle,       \* send_when_no_changes of the process
    sendResult,     \* send_email of the cycle: "none" while not invoked
    outcome,        \* how the cycle ended ("running" until it ends)
    delivered,      \* per store: ErrorIDs of rows in reports that were sent
    refetch,        \* per store: ErrorIDs fetched by the last ended cycle if
                    \* its delivery raised, else {}
    answer,         \* run_once: what the summarization service did ("none"
                    \* while ai_summary was not called in the cycle)
    summary,        \* run_once local: the summary text ("" while not set)
    loop            \* main_loop of ai_agent.py: "off" (not started), "ready"
                    \* (about to call run_once), "cycle" (in run_once),
                    \* "sleep" (in time.sleep) or "stopped"

pollerVars ==
    <<install, errorLog, agentState, monitorState, prog, pc, last, rows, issues,
      smtpOk, sendIdle, sendResult, outcome, delivered, refetch, answer,
      summary, loop>>

VARIABLES
    op,             \* the call: kind, max_attempts and base_delay of its wrapper
    rpc,            \* position of wrapper(): "idle", "call", "sleep", "done"
    attempt,        \* local of wrapper(): the 1-based attempt counter
    delay,          \* local of wrapper(): the delay being slept
    calls,          \* invocations of the wrapped function in this call
    errs,           \* errnum extracted from each failed invocation, in order
    delays,         \* delays slept in this call, in order
    result,         \* how the call ended ("none" until it ends)
    failure,        \* the last failed invocation: None or <<[site, ex]>>
    txn,            \* the transaction of the last invocation: "none" (no
                    \* connection was opened), "committed" or "rolledback"
    refs            \* the value of ref after "if ref is None: ref = gen_ref"
                    \* in each invocation of this call, in order

retryVars ==
    <<op, rpc, attempt, delay, calls, errs, delays, result, failure, txn,
      refs>>

VARIABLES
    pure,           \* the last application of a report or store function:
                    \* [fn, errors, findings, res]
    lastSet         \* per store and key, the last set: None or <<v, how>>,
                    \* how being "insert" or "update"

libVars == <<pure, lastSet>>

vars == <<pollerVars, retryVars, libVars>>

(***************************************************************************)
(* Watermark stores.                                                       *)
(***************************************************************************)
KEY == "last_error_id"

\* SELECT v FROM s WHERE k=? ; row[0] if row else default
get_state(tbl, key, default) ==
    IF \E r \in tbl : r[1] = key
    THEN (CHOOSE r \in tbl : r[1] = key)[2]
    ELSE default

\* Mutant of set_state: ON CONFLICT(k) DO NOTHING.
set_state_do_nothing(tbl, key, value) ==
    IF \E r \in tbl : r[1] = key THEN tbl ELSE tbl \cup {<<key, value>>}

\* INSERT INTO s(k,v) VALUES(?,?) ON CONFLICT(k) DO UPDATE SET v=excluded.v
set_state(tbl, key, value) ==
    {r \in tbl : r[1] # key} \cup {<<key, value>>}

\* ai_agent.py reads and writes the same file and table as agent.py.
state_get_last_id(tbl) ==
    IF \E r \in tbl : r[1] = KEY
    THEN int((CHOOSE r \in tbl : r[1] = KEY)[2])
    ELSE 0

state_set_last_id(tbl, v) == set_state(tbl, KEY, str(v))

\* monitor_errors.py keeps an INTEGER column in its own file.
get_last_id(tbl) == get_state(tbl, KEY, 0)

set_last_id(tbl, v) == set_state(tbl, KEY, v)

Stores == {"agent", "monitor"}

StoreOf(p) == IF p = "monitor" THEN "monitor" ELSE "agent"

\* The persisted watermark of a store, as the next cycle would read it.
Watermark(s) ==
    IF s = "agent" THEN int(get_state(agentState, KEY, str(0)))
    ELSE get_last_id(monitorState)

(***************************************************************************)
(* Data access.                                                            *)
(***************************************************************************)
\* A value of the ErrorNumber column as pyodbc hands it over: an int, NULL
\* (None), or a text when the column is not numeric.
IntNum(n) == [t |-> "int", n |-> n, s |-> <<>>]

NullNum == [t |-> "null", n |-> 0, s |-> <<>>]

StrNum(txt) == [t |-> "str", n |-> 0, s |-> txt]

\* A row of dbo.ErrorLog: ErrorID, ProcName, ErrorNumber, ErrorMessage
\* (OccurredAt is only echoed).  ProcName is None for NULL.
ErrorRow(id, proc, num, msg) ==
    [ErrorID |-> id, ProcName |-> proc, ErrorNumber |-> num, ErrorMessage |-> msg]

\* The cycles of the pollers read ErrorID only; the other columns are fixed.
Row(id) == ErrorRow(id, <<"usp_TransferFunds">>, IntNum(50003), "m1")

Ids(rs) == {rs[i].ErrorID : i \in 1..Len(rs)}

\* Mutant of fetch_new_errors: ORDER BY ErrorID DESC.
fetch_new_errors_desc(since_id) ==
    LET ids == SortAsc({id \in errorLog : id > since_id})
    IN  [i \in 1..Len(ids) |-> Row(ids[Len(ids) + 1 - i])]

\* SELECT ... FROM dbo.ErrorLog WHERE ErrorID > ? ORDER BY ErrorID
fetch_new_errors(since_id) ==
    LET ids == SortAsc({id \in errorLog : id > since_id})
    IN  [i \in 1..Len(ids) |-> Row(ids[i])]

\* Result sets usp_HealthCheck may return: each is <<has description, rows>>.
ResultSets ==
    { << <<FALSE, <<>>>> >>,
      << <<TRUE, <<>>>>, <<FALSE, <<>>>> >>,
      << <<TRUE, <<"f1">>>>, <<FALSE, <<>>>>, <<TRUE, <<"f2">>>> >> }

\* while True: if cur.description: issues.extend(rows); if not nextset: break
run_health_check(sets) ==
    Flatten([i \in 1..Len(sets) |-> IF sets[i][1] THEN sets[i][2] ELSE <<>>])

(***************************************************************************)
(* Report building and delivery.                                           *)
(***************************************************************************)
(***************************************************************************)
(* agent.py : classify_and_plan(err_row)                                   *)
(***************************************************************************)
\* str(num) of an ErrorNumber value.
py_str(num) ==
    IF num.t = "int"
    THEN (IF num.n >= 0 THEN str(num.n) ELSE <<"-">> \o str(0 - num.n))
    ELSE IF num.t = "null" THEN <<"N", "o", "n", "e">>
    ELSE num.s

\* num = int(num) if isinstance(num, (int,)) or (str(num).isdigit()) else None
num_of(num) ==
    IF num.t = "int" THEN Returns(<<num.n>>)
    ELSE IF isdigit(py_str(num))
         THEN (IF int_raises(py_str(num)) THEN Raises
               ELSE Returns(<<int(py_str(num))>>))
         ELSE Returns(None)

\* proc = proc or "unknown"
proc_or_unknown(proc) ==
    IF proc = None \/ proc = <<"">> THEN "unknown" ELSE proc[1]

\* The (severity, plan_text) pairs classify_and_plan returns.
Plan(sev, text, proc, msg) ==
    [sev |-> sev, text |-> text, proc |-> proc, msg |-> msg]

Duplicate == Plan("P2", "Duplicate reference detected", "", "")

Insufficient == Plan("P3", "Insufficient funds", "", "")

Transient == Plan("P2", "Transient concurrency issue", "", "")

\* f"Investigate in SSMS. Procedure={proc}, Message={msg}"
Investigate(proc, msg) == Plan("P2", "Investigate in SSMS", proc, msg)

\* Mutant of plan_for: the 50003 branch is missing.
plan_for_no_50003(num, proc, msg) ==
    IF InSet(num, {2601, 2627}) THEN Duplicate
    ELSE IF InSet(num, {1205, 1222}) THEN Transient
    ELSE Investigate(proc, msg)

\* The if-chain of classify_and_plan on the converted num (None or <<n>>).
plan_for(num, proc, msg) ==
    IF InSet(num, {2601, 2627}) THEN Duplicate
    ELSE IF num = <<50003>> THEN Insufficient
    ELSE IF InSet(num, {1205, 1222}) THEN Transient
    ELSE Investigate(proc, msg)

\* classify_and_plan(err_row): returns (severity, plan_text) or raises the
\* ValueError of int(num).
classify_and_plan(err_row) ==
    IF num_of(err_row.ErrorNumber).raised THEN Raises
    ELSE Returns(<<plan_for(num_of(err_row.ErrorNumber).value,
                            proc_or_unknown(err_row.ProcName),
                            err_row.ErrorMessage)>>)

(***************************************************************************)
(* The report builders.  A report is the sequence of the pieces the code   *)
(* appends or interpolates, each a record with a tag.                      *)
(***************************************************************************)
Piece(tag) == [tag |-> tag]

\* The <tr> of one error: id, proc, severity pill, number and plan.
error_tr(e) ==
    [tag |-> "error", eid |-> e.ErrorID, proc |-> e.ProcName,
     num |-> e.ErrorNumber, plan |-> classify_and_plan(e).value]

\* The <tr> (agent.py), <li> (ai_agent.py) or line (monitor_errors.py) of
\* one health finding.
finding_item(it) == [tag |-> "finding", cells |-> it]

\* Mutant of errors_section: the loop stops one row short.
errors_section_short(new_errors) ==
    IF new_errors = <<>> THEN <<>>
    ELSE <<Piece("errors_head")>>
         \o [i \in 1..(Len(new_errors) - 1) |-> error_tr(new_errors[i])]
         \o <<Piece("table_end")>>

\* if new_errors: heading, table head, one <tr> per error, </table>
errors_section(new_errors) ==
    IF new_errors = <<>> THEN <<>>
    ELSE <<Piece("errors_head")>>
         \o [i \in 1..Len(new_errors) |-> error_tr(new_errors[i])]
         \o <<Piece("table_end")>>

\* if health_issues: heading, table head, one <tr> per finding, </table>
health_section(health_issues) ==
    IF health_issues = <<>> THEN <<>>
    ELSE <<Piece("health_head")>>
         \o [i \in 1..Len(health_issues) |-> finding_item(health_issues[i])]
         \o <<Piece("table_end")>>

html_body(new_errors, health_issues) ==
    <<Piece("title")>> \o errors_section(new_errors)
        \o health_section(health_issues) \o <<Piece("footer")>>

\* Mutant of html_report: the early "return None" is missing.
html_report_always(new_errors, health_issues) ==
    << html_body(new_errors, health_issues) >>

\* agent.py: None when there is nothing to report, else "".join(out).
html_report(new_errors, health_issues) ==
    IF new_errors = <<>> /\ health_issues = <<>> THEN None
    ELSE << html_body(new_errors, health_issues) >>

\* html_report raises when classify_and_plan raises for one of the rows.
html_report_call(new_errors, health_issues) ==
    IF \E i \in 1..Len(new_errors) : classify_and_plan(new_errors[i]).raised
    THEN Raises
    ELSE Returns(html_report(new_errors, health_issues))

\* The <tr> of one error in ai_agent.py and the line of one error in
\* monitor_errors.py: the columns of the row, no severity, no plan.
error_line(r) ==
    [tag |-> "error", eid |-> r.ErrorID, proc |-> r.ProcName,
     num |-> r.ErrorNumber, msg |-> r.ErrorMessage]

\* ai_agent.py: always renders; empty inputs give the explicit OK lines.
render_email_html(s, error_rows, health_rows) ==
    << <<[tag |-> "summary", text |-> s]>>
       \o (IF error_rows # <<>>
           THEN <<Piece("errors_head")>>
                \o [i \in 1..Len(error_rows) |-> error_line(error_rows[i])]
                \o <<Piece("table_end")>>
           ELSE <<Piece("no_errors")>>)
       \o (IF health_rows # <<>>
           THEN <<Piece("health_head")>>
                \o [i \in 1..Len(health_rows) |-> finding_item(health_rows[i])]
           ELSE <<Piece("health_ok")>>)
       \o <<Piece("footer")>> >>

\* monitor_errors.py: "No new ErrorLog rows." or one line per row.
fmt_errors(error_rows) ==
    IF error_rows = <<>> THEN <<Piece("no_errors")>>
    ELSE [i \in 1..Len(error_rows) |-> error_line(error_rows[i])]

\* monitor_errors.py: "HealthCheck: OK" or one line per finding.
fmt_health(health_rows) ==
    IF health_rows = <<>> THEN <<Piece("health_ok")>>
    ELSE [i \in 1..Len(health_rows) |-> finding_item(health_rows[i])]

\* body = f"Time: {now}Z\n\n{fmt_errors(rows)}\n\n{fmt_health(issues)}"
monitor_body(error_rows, health_rows) ==
    <<Piece("time")>> \o fmt_errors(error_rows) \o fmt_health(health_rows)

\* What one call of send_email can do: return without sending when the SMTP
\* settings are incomplete, else send, or raise out of smtplib.
\* Mutant of send_email: incomplete SMTP settings raise.
send_email_strict(configured) ==
    IF ~configured THEN {"raised"} ELSE {"sent", "raised"}

send_email(configured) ==
    IF ~configured THEN {"skipped"} ELSE {"sent", "raised"}

\* Mutant of new_last: new_last starts at 0 instead of last.
new_last_zero(lastId, err_rows) ==
    IF err_rows # <<>> THEN SetMax(Ids(err_rows)) ELSE 0

\* ai_agent.run_once: new_last = last; if err_rows: new_last = max(ErrorID)
new_last(lastId, err_rows) ==
    IF err_rows # <<>> THEN SetMax(Ids(err_rows)) ELSE lastId

(***************************************************************************)
(* The poller cycles.                                                      *)
(***************************************************************************)
InitPoller ==
    /\ install \in Stores
    /\ errorLog = {}
    /\ agentState = {}
    /\ monitorState = {}
    /\ prog = "none"
    /\ pc = "idle"
    /\ last = 0
    /\ rows = <<>>
    /\ issues = <<>>
    /\ smtpOk = TRUE
    /\ sendIdle = FALSE
    /\ sendResult = "none"
    /\ outcome = "none"
    /\ delivered = [s \in Stores |-> {}]
    /\ refetch = [s \in Stores |-> {}]
    /\ answer = "none"
    /\ summary = ""
    /\ loop = "off"

\* The data source appends a row; its IDENTITY value exceeds every earlier one.
AddError ==
    /\ \E id \in ErrorIds :
          /\ id > MaxOrZero(errorLog)
          /\ errorLog' = errorLog \cup {id}
    /\ UNCHANGED <<install, agentState, monitorState, prog, pc, last, rows,
                   issues, smtpOk, sendIdle, sendResult, outcome, delivered,
                   refetch>>
    /\ UNCHANGED <<answer, summary, loop>>
    /\ UNCHANGED <<retryVars, libVars>>

\* A process starts a cycle with fresh locals.
BeginCycle(p, lastId) ==
    /\ pc = "idle"
    /\ install = StoreOf(p)
    /\ prog' = p
    /\ pc' = "fetch"
    /\ last' = lastId
    /\ rows' = <<>>
    /\ issues' = <<>>
    /\ sendResult' = "none"
    /\ outcome' = "running"
    /\ smtpOk' \in BOOLEAN
    /\ answer' = "none"
    /\ summary' = ""
    /\ loop' = IF loop = "ready" THEN "cycle" ELSE loop
    /\ UNCHANGED <<install, errorLog, agentState, monitorState, delivered, refetch>>
    /\ UNCHANGED <<retryVars, libVars>>

\* Mutant of after_cycle: no try/except around run_once in main_loop.
after_cycle_uncaught(l, how) ==
    IF l # "cycle" THEN l
    ELSE IF how = "ok" THEN "sleep" ELSE "stopped"

\* main_loop after run_once: a return and an Exception (printed by the
\* except clause) both go on to time.sleep; a kill ends the process.
after_cycle(l, how) ==
    IF l # "cycle" THEN l
    ELSE IF how = "crash" THEN "stopped" ELSE "sleep"

\* The cycle ends (return, exception out of the entry point, or kill).
EndCycle(how) ==
    /\ pc' = "idle"
    /\ outcome' = how
    /\ loop' = after_cycle(loop, how)
    /\ refetch' = [refetch EXCEPT ![StoreOf(prog)] =
                      IF how = "send_error" THEN Ids(rows) ELSE {}]

\* The report was handed to SMTP: its rows count as delivered.
Deliver(res) ==
    /\ sendResult' = res
    /\ delivered' =
         IF res = "sent"
         THEN [delivered EXCEPT ![StoreOf(prog)] = @ \cup Ids(rows)]
         ELSE delivered

\* The ErrorLog query or usp_HealthCheck raises: the exception leaves the
\* entry point and the cycle ends.
db_raises ==
    /\ pc \in {"fetch", "health"}
    /\ EndCycle("error")
    /\ UNCHANGED <<install, errorLog, agentState, monitorState, prog, last, rows,
                   issues, smtpOk, sendIdle, sendResult, delivered>>
    /\ UNCHANGED <<answer, summary>>
    /\ UNCHANGED <<retryVars, libVars>>

\* The process is killed in the middle of a cycle.
Crash ==
    /\ pc # "idle"
    /\ EndCycle("crash")
    /\ UNCHANGED <<install, errorLog, agentState, monitorState, prog, last, rows,
                   issues, smtpOk, sendIdle, sendResult, delivered>>
    /\ UNCHANGED <<answer, summary>>
    /\ UNCHANGED <<retryVars, libVars>>

\* Mutant of FetchStep: the watermark is written as soon as rows are fetched.
FetchStep_advancing(p, next) ==
    /\ prog = p
    /\ pc = "fetch"
    /\ rows' = fetch_new_errors(last)
    /\ pc' = next
    /\ agentState' =
         IF p # "monitor" /\ rows' # <<>>
         THEN state_set_last_id(agentState, SetMax(Ids(rows')))
         ELSE agentState
    /\ UNCHANGED <<install, errorLog, monitorState, prog, last, issues,
                   smtpOk, sendIdle, sendResult, outcome, delivered,
                   refetch>>
    /\ UNCHANGED <<answer, summary, loop>>
    /\ UNCHANGED <<retryVars, libVars>>

\* rows = fetch_new_errors(last), the same query in the three entry points.
FetchStep(p, next) ==
    /\ prog = p
    /\ pc = "fetch"
    /\ rows' = fetch_new_errors(last)
    /\ pc' = next
    /\ UNCHANGED <<install, errorLog, agentState, monitorState, prog, last, issues,
                   smtpOk, sendIdle, sendResult, outcome, delivered,
                   refetch>>
    /\ UNCHANGED <<answer, summary, loop>>
    /\ UNCHANGED <<retryVars, libVars>>

\* issues = run_health_check(), the same loop in the three entry points.
HealthStep(p, next) ==
    /\ prog = p
    /\ pc = "health"
    /\ \E sets \in ResultSets : issues' = run_health_check(sets)
    /\ pc' = next
    /\ UNCHANGED <<install, errorLog, agentState, monitorState, prog, last, rows,
                   smtpOk, sendIdle, sendResult, outcome, delivered,
                   refetch>>
    /\ UNCHANGED <<answer, summary, loop>>
    /\ UNCHANGED <<retryVars, libVars>>

(***************************************************************************)
(* agent.py : main()                                                       *)
(***************************************************************************)
\* last_id = int(get_state("last_error_id", "0"))
agent_main_start ==
    /\ BeginCycle("agent", int(get_state(agentState, KEY, str(0))))
    /\ sendIdle' = FALSE

agent_main_fetch == FetchStep("agent", "health")

agent_main_health == HealthStep("agent", "deliver")

\* html = html_report(rows, issues); if html: send_email(subject, html)
agent_main_deliver ==
    /\ prog = "agent"
    /\ pc = "deliver"
    /\ IF html_report(rows, issues) # None
       THEN \E res \in send_email(smtpOk) :
              /\ Deliver(res)
              /\ IF res = "raised"
                 THEN EndCycle("send_error")
                 ELSE pc' = "advance" /\ UNCHANGED <<outcome, refetch, loop>>
       ELSE /\ pc' = "advance"
            /\ UNCHANGED <<sendResult, delivered, outcome, refetch, loop>>
    /\ UNCHANGED <<install, errorLog, agentState, monitorState, prog, last, rows,
                   issues, smtpOk, sendIdle>>
    /\ UNCHANGED <<answer, summary>>
    /\ UNCHANGED <<retryVars, libVars>>

\* if rows: set_state("last_error_id", str(rows[-1][0]))
agent_main_advance ==
    /\ prog = "agent"
    /\ pc = "advance"
    /\ agentState' =
         IF rows # <<>>
         THEN set_state(agentState, KEY, str(rows[Len(rows)].ErrorID))
         ELSE agentState
    /\ EndCycle("ok")
    /\ UNCHANGED <<install, errorLog, monitorState, prog, last, rows, issues, smtpOk,
                   sendIdle, sendResult, delivered>>
    /\ UNCHANGED <<answer, summary>>
    /\ UNCHANGED <<retryVars, libVars>>

(***************************************************************************)
(* ai_agent.py : run_once(send_when_no_changes)                            *)
(***************************************************************************)
\* What the summarization service does with a request: "text" (an answer),
\* "empty" (an answer that strips to ""), "raised" (import, network or API
\* error) or "nokey" (OPENAI_API_KEY is not set, no request is made).
AiAnswers == {"text", "empty", "raised", "nokey"}

AiText == "ai text"

\* Mutant of ai_summary: no try/except around the request.
ai_summary_uncaught(ans) ==
    IF ans = "raised" THEN Raises
    ELSE IF ans = "text" THEN Returns(<<AiText>>) ELSE Returns(None)

\* ai_summary: None without a key, "text or None" of the answer, and None
\* from "except Exception".
ai_summary(ans) ==
    IF ans = "text" THEN Returns(<<AiText>>) ELSE Returns(None)

\* fallback_summary: the fixed sentence when there is nothing to report,
\* else the counts of the rows and the health line.
fallback_summary(error_rows, health_rows) ==
    IF error_rows = <<>> /\ health_rows = <<>>
    THEN "No new errors; health OK."
    ELSE "rule-based summary"

\* state_init(); last = state_get_last_id()
run_once_start ==
    /\ BeginCycle("ai_agent", state_get_last_id(agentState))
    /\ sendIdle' \in BOOLEAN

run_once_fetch == FetchStep("ai_agent", "health")

run_once_health == HealthStep("ai_agent", "deliver")

\* Nothing to report and no send-on-idle: return without OpenAI or email.
run_once_skip ==
    /\ prog = "ai_agent"
    /\ pc = "deliver"
    /\ rows = <<>> /\ issues = <<>> /\ ~sendIdle
    /\ agentState' =
         IF new_last(last, rows) # last
         THEN state_set_last_id(agentState, new_last(last, rows))
         ELSE agentState
    /\ EndCycle("ok")
    /\ UNCHANGED <<install, errorLog, monitorState, prog, last, rows, issues, smtpOk,
                   sendIdle, sendResult, delivered>>
    /\ UNCHANGED <<answer, summary>>
    /\ UNCHANGED <<retryVars, libVars>>

\* summary = ai_summary(prompt) or fallback_summary(...); render; send_email
run_once_deliver ==
    /\ prog = "ai_agent"
    /\ pc = "deliver"
    /\ ~(rows = <<>> /\ issues = <<>> /\ ~sendIdle)
    /\ \E ans \in AiAnswers :
          /\ answer' = ans
          /\ IF ai_summary(ans).raised
             THEN /\ EndCycle("error")
                  /\ UNCHANGED <<summary, sendResult, delivered>>
             ELSE /\ summary' =
                       IF ai_summary(ans).value = None
                       THEN fallback_summary(rows, issues)
                       ELSE ai_summary(ans).value[1]
                  /\ render_email_html(summary', rows, issues) # None
                  /\ \E res \in send_email(smtpOk) :
                        /\ Deliver(res)
                        /\ IF res = "raised"
                           THEN EndCycle("send_error")
                           ELSE /\ pc' = "advance"
                                /\ UNCHANGED <<outcome, refetch, loop>>
    /\ UNCHANGED <<install, errorLog, agentState, monitorState, prog, last, rows,
                   issues, smtpOk, sendIdle>>
    /\ UNCHANGED <<retryVars, libVars>>

\* if new_last != last: state_set_last_id(new_last)
run_once_advance ==
    /\ prog = "ai_agent"
    /\ pc = "advance"
    /\ agentState' =
         IF new_last(last, rows) # last
         THEN state_set_last_id(agentState, new_last(last, rows))
         ELSE agentState
    /\ EndCycle("ok")
    /\ UNCHANGED <<install, errorLog, monitorState, prog, last, rows, issues, smtpOk,
                   sendIdle, sendResult, delivered>>
    /\ UNCHANGED <<answer, summary>>
    /\ UNCHANGED <<retryVars, libVars>>

(***************************************************************************)
(* ai_agent.py : main_loop(interval, send_when_no_changes)                 *)
(***************************************************************************)
\* python ai_agent.py --loop: the SMTP settings are read when the module is
\* loaded and send_when_no_changes is fixed for the loop; state_init().
main_loop_start ==
    /\ loop = "off"
    /\ pc = "idle"
    /\ install = "agent"
    /\ loop' = "ready"
    /\ smtpOk' \in BOOLEAN
    /\ sendIdle' \in BOOLEAN
    /\ UNCHANGED <<install, errorLog, agentState, monitorState, prog, pc, last,
                   rows, issues, sendResult, outcome, delivered, refetch,
                   answer, summary>>
    /\ UNCHANGED <<retryVars, libVars>>

\* while True: try: run_once(send_when_no_changes=send_when_no_changes)
main_loop_run_once ==
    /\ loop = "ready"
    /\ run_once_start
    /\ smtpOk' = smtpOk
    /\ sendIdle' = sendIdle

\* time.sleep(interval) returns: the next iteration begins.
main_loop_sleep_done ==
    /\ loop = "sleep"
    /\ loop' = "ready"
    /\ UNCHANGED <<install, errorLog, agentState, monitorState, prog, pc, last,
                   rows, issues, smtpOk, sendIdle, sendResult, outcome,
                   delivered, refetch, answer, summary>>
    /\ UNCHANGED <<retryVars, libVars>>

\* Mutant of main_loop_interrupt: the newest ErrorID is stored on the way out.
main_loop_interrupt_flush ==
    /\ loop = "sleep"
    /\ loop' = "stopped"
    /\ agentState' = state_set_last_id(agentState, MaxOrZero(errorLog))
    /\ UNCHANGED <<install, errorLog, monitorState, prog, pc, last,
                   rows, issues, smtpOk, sendIdle, sendResult, outcome,
                   delivered, refetch, answer, summary>>
    /\ UNCHANGED <<retryVars, libVars>>

\* except KeyboardInterrupt: break -- Ctrl+C during time.sleep(interval).
main_loop_interrupt ==
    /\ loop = "sleep"
    /\ loop' = "stopped"
    /\ UNCHANGED <<install, errorLog, agentState, monitorState, prog, pc, last,
                   rows, issues, smtpOk, sendIdle, sendResult, outcome,
                   delivered, refetch, answer, summary>>
    /\ UNCHANGED <<retryVars, libVars>>

(***************************************************************************)
(* monitor_errors.py : the __main__ block                                  *)
(***************************************************************************)
\* last = get_last_id()
monitor_start ==
    /\ BeginCycle("monitor", get_last_id(monitorState))
    /\ sendIdle' = FALSE

\* rows = fetch_new_errors(last)
monitor_fetch == FetchStep("monitor", "advance")

\* if rows: print(fmt_errors(rows)); set_last_id(rows[-1][0])
monitor_advance ==
    /\ prog = "monitor"
    /\ pc = "advance"
    /\ monitorState' =
         IF rows # <<>>
         THEN set_last_id(monitorState, rows[Len(rows)].ErrorID)
         ELSE monitorState
    /\ pc' = "health"
    /\ UNCHANGED <<install, errorLog, agentState, prog, last, rows, issues, smtpOk,
                   sendIdle, sendResult, outcome, delivered, refetch>>
    /\ UNCHANGED <<answer, summary, loop>>
    /\ UNCHANGED <<retryVars, libVars>>

\* issues = run_health_check()
monitor_health == HealthStep("monitor", "deliver")

\* if rows or issues: send_email(subject, body)
monitor_deliver ==
    /\ prog = "monitor"
    /\ pc = "deliver"
    /\ IF rows # <<>> \/ issues # <<>>
       THEN \E res \in send_email(smtpOk) :
              /\ Deliver(res)
              /\ EndCycle(IF res = "raised" THEN "send_error" ELSE "ok")
       ELSE /\ EndCycle("ok")
            /\ UNCHANGED <<sendResult, delivered>>
    /\ UNCHANGED <<install, errorLog, agentState, monitorState, prog, last, rows,
                   issues, smtpOk, sendIdle>>
    /\ UNCHANGED <<answer, summary>>
    /\ UNCHANGED <<retryVars, libVars>>

InitRetryIdle ==
    /\ op = [kind |-> "none", max_attempts |-> 0, base_delay |-> 0,
             ref |-> None]
    /\ rpc = "idle"
    /\ attempt = 0
    /\ delay = 0
    /\ calls = 0
    /\ errs = <<>>
    /\ delays = <<>>
    /\ result = "none"
    /\ failure = None
    /\ txn = "none"
    /\ refs = <<>>

\* One application of a function: its name, its inputs and how it ended.
Applied(fn, errors, findings, res) ==
    [fn |-> fn, key |-> "", errors |-> errors, findings |-> findings,
     res |-> res]

NoneApplied == Applied("none", <<>>, <<>>, Returns(None))

\* agent.py takes the key as a parameter; the other two scripts fix it.
OtherKey == "other"

Slots == {<<"agent", KEY>>, <<"agent", OtherKey>>, <<"monitor", KEY>>}

InitLib ==
    /\ pure = NoneApplied
    /\ lastSet = [sl \in Slots |-> None]

Init == InitPoller /\ InitRetryIdle /\ InitLib

Next ==
    \/ AddError
    \/ db_raises
    \/ Crash
    \/ agent_main_start
    \/ agent_main_fetch
    \/ agent_main_health
    \/ agent_main_deliver
    \/ agent_main_advance
    \/ run_once_start
    \/ run_once_fetch
    \/ run_once_health
    \/ run_once_skip
    \/ run_once_deliver
    \/ run_once_advance
    \/ monitor_start
    \/ monitor_fetch
    \/ monitor_advance
    \/ monitor_health
    \/ monitor_deliver

Spec == Init /\ [][Next]_vars

(***************************************************************************)
(* Properties of the poller cycles.                                        *)
(***************************************************************************)
Fetched == pc \in {"health", "deliver", "advance"}

Ended(how) == pc = "idle" /\ outcome = how

\* C1: over any sequence of cycles of agent.main, ai_agent.run_once and the
\* monitor_errors main block, with zero new rows or a failing delivery
\* included, no step lowers the persisted last_error_id of either store.
C1_WatermarkNeverDecreases ==
    [][\A s \in Stores : Watermark(s)' >= Watermark(s)]_vars

\* A cycle of agent.main that fetched nothing new and whose delivery raised
\* has ended, with the watermark already advanced by earlier cycles.
C1_Witness ==
    /\ Ended("send_error")
    /\ prog = "agent"
    /\ rows = <<>>
    /\ last = MaxErrorId
    /\ Watermark("agent") = MaxErrorId

\* C2: between cycles, the persisted watermark of a store equals the largest
\* ErrorID of any row that was part of a report actually sent for that store,
\* and is 0 if no such row exists.
C2_WatermarkEqualsMaxDelivered ==
    pc = "idle" => \A s \in Stores : Watermark(s) = MaxOrZero(delivered[s])

\* C3: when the delivery step of a cycle raises, the cycle ends with the
\* persisted watermark equal to the value it read at its start.
C3_FailedDeliveryKeepsWatermark ==
    Ended("send_error") => Watermark(StoreOf(prog)) = last

\* C4: the watermark is only written after the report was delivered, so at
\* every moment (a crash included) every row of the source with an ErrorID
\* at or below the persisted watermark has been part of a delivered report.
C4_NoSilentLoss ==
    \A s \in Stores : \A id \in errorLog :
        id <= Watermark(s) => id \in delivered[s]

\* C5: if the previous cycle on a store fetched the rows S and its delivery
\* raised, the rows fetched by the next cycle on that store include S.
C5_FailedCycleRefetched ==
    Fetched => refetch[StoreOf(prog)] \subseteq Ids(rows)

\* C6: a cycle that fetched a non-empty list and whose report was sent ends
\* with the persisted watermark equal to the largest fetched ErrorID; the id
\* of the last row (agent.main, monitor) and the max over the ids
\* (ai_agent.run_once) are the same value.
C6_DeliveredCycleWritesMax ==
    /\ (Ended("ok") /\ rows # <<>> /\ sendResult = "sent")
          => Watermark(StoreOf(prog)) = SetMax(Ids(rows))
    /\ (Fetched /\ rows # <<>>)
          => rows[Len(rows)].ErrorID = new_last(last, rows)

\* Scenario A: watermark 0, the source holds the ids 12, 13, 14, no findings,
\* the report is sent, and agent.main has ended with watermark 14.
C6_Witness ==
    /\ Ended("ok")
    /\ prog = "agent"
    /\ last = 0
    /\ Ids(rows) = ErrorIds
    /\ Len(rows) = Cardinality(ErrorIds)
    /\ issues = <<>>
    /\ sendResult = "sent"
    /\ Watermark("agent") = MaxErrorId

\* C7: a cycle with no new rows and no findings, send-on-idle off, builds no
\* report, never calls send_email and leaves the persisted watermark as read.
C7_IdleCycleIsSilent ==
    (Ended("ok") /\ rows = <<>> /\ issues = <<>> /\ ~sendIdle)
        => /\ html_report(rows, issues) = None
           /\ sendResult = "none"
           /\ Watermark(StoreOf(prog)) = last

\* Scenario D on top of an advanced watermark: agent.main ended an idle cycle.
C7_Witness ==
    /\ Ended("ok")
    /\ prog = "agent"
    /\ rows = <<>>
    /\ issues = <<>>
    /\ ~sendIdle
    /\ sendResult = "none"
    /\ last = MaxErrorId
    /\ Watermark("agent") = MaxErrorId

(***************************************************************************)
(* SpecLoop : ai_agent.py --loop, the only poller of its installation.     *)
(***************************************************************************)
NextLoop ==
    \/ AddError
    \/ main_loop_start
    \/ main_loop_run_once
    \/ run_once_fetch
    \/ run_once_health
    \/ run_once_skip
    \/ run_once_deliver
    \/ run_once_advance
    \/ db_raises
    \/ Crash
    \/ main_loop_sleep_done
    \/ main_loop_interrupt

InitLoop == Init /\ install = "agent"

SpecLoop == InitLoop /\ [][NextLoop]_vars

\* send_email hands the report to the SMTP server and returns.
deliver_sent == run_once_deliver /\ sendResult' = "sent"

\* The loop is sequential code that goes on: run_once is called, time.sleep
\* returns, and each statement of run_once is reached and executed.  The
\* data source and the SMTP server succeed again and again (strong fairness
\* of the successful fetch, health check and delivery).
SpecLoopFair ==
    /\ SpecLoop
    /\ WF_vars(main_loop_run_once)
    /\ WF_vars(main_loop_sleep_done)
    /\ WF_vars(run_once_skip)
    /\ WF_vars(run_once_deliver)
    /\ WF_vars(run_once_advance)
    /\ SF_vars(run_once_fetch)
    /\ SF_vars(run_once_health)
    /\ SF_vars(deliver_sent)

\* What the last ended cycle left in the store.
LeftByCycle == IF outcome = "ok" THEN new_last(last, rows) ELSE last

\* Ctrl+C during the sleep changes nothing but the loop.
InterruptWritesNothing ==
    (loop = "sleep" /\ loop' = "stopped")
    => (agentState' = agentState /\ UNCHANGED <<pc, outcome, delivered>>)

\* C21: a stop signal during the sleep between two cycles ends the loop
\* without a write to the state store: once the loop has stopped that way the
\* stored watermark is the one the last ended cycle left.
C21_StopDuringSleepKeepsWatermark ==
    /\ [][InterruptWritesNothing]_vars
    /\ []((loop = "stopped" /\ outcome # "crash")
          => (pc = "idle" /\ Watermark("agent") = LeftByCycle))

\* The loop was stopped in the sleep that followed a delivered cycle, after
\* a newer row had arrived: the watermark is still the one of that cycle.
C21_Witness ==
    /\ loop = "stopped"
    /\ outcome = "ok"
    /\ sendResult = "sent"
    /\ rows # <<>>
    /\ Watermark("agent") = SetMax(Ids(rows))
    /\ MaxOrZero(errorLog) > Watermark("agent")

\* A cycle of the loop that ends with an exception is followed by the sleep.
FailedCycleSleeps ==
    (loop = "cycle" /\ pc' = "idle" /\ outcome' \in {"error", "send_error"})
    => loop' = "sleep"

\* Row id is in the log of a running loop that has SMTP settings.
Pending(id) ==
    /\ id \in errorLog
    /\ loop \in {"ready", "cycle", "sleep"}
    /\ smtpOk

Reported(id) == id \in delivered["agent"] /\ Watermark("agent") >= id

\* C22: in loop mode a cycle starts only when none is running, a cycle that
\* ends with an exception is followed by the sleep and the next cycle, and,
\* with a data source and an SMTP server that succeed again and again, every
\* row of the log is delivered and the watermark reaches its id, unless the
\* loop is stopped first.
C22_LoopRetriesUntilDelivered ==
    /\ [](loop \in {"ready", "sleep", "stopped"} => pc = "idle")
    /\ [](loop = "cycle" => (prog = "ai_agent" /\ pc # "idle"))
    /\ [][FailedCycleSleeps]_vars
    /\ \A id \in ErrorIds :
          Pending(id) ~> (Reported(id) \/ loop = "stopped")

\* After a cycle whose delivery raised, the next cycle of the loop has
\* fetched the same rows again and delivered them.
C22_Witness ==
    /\ loop = "cycle"
    /\ pc = "advance"
    /\ rows # <<>>
    /\ refetch["agent"] = Ids(rows)
    /\ sendResult = "sent"
    /\ MaxErrorId \in delivered["agent"]

\* The two pollers that keep their watermark in .agent_state.sqlite.
AgentFamily == {"agent", "ai_agent"}

\* C26: when the ErrorLog query or the health check raises in agent.main or
\* ai_agent.run_once, the cycle ends without calling the summarization
\* service or send_email, and the stored watermark is the one the cycle read.
C26_DbFailureLeavesWatermark ==
    (Ended("error") /\ prog \in AgentFamily)
    => /\ sendResult = "none"
       /\ answer = "none"
       /\ Watermark("agent") = last

\* The health check of run_once raised after two new rows were fetched.
C26_Witness ==
    /\ Ended("error")
    /\ prog = "ai_agent"
    /\ last = MinErrorId
    /\ Len(rows) = 2
    /\ Watermark("agent") = MinErrorId
    /\ sendResult = "none"

\* C27: with incomplete SMTP settings send_email returns without sending and
\* without raising; the cycle of agent.main or ai_agent.run_once goes on, and
\* when it ends the watermark is the maximum id of the rows it fetched (the
\* watermark it read when it fetched none).
C27_UnconfiguredSmtpAdvances ==
    /\ (~smtpOk /\ sendResult # "none") => sendResult = "skipped"
    /\ (sendResult = "skipped" /\ prog \in AgentFamily)
       => /\ ~smtpOk
          /\ outcome \in {"running", "ok", "crash"}
          /\ Ended("ok") =>
                Watermark("agent") =
                   IF rows # <<>> THEN SetMax(Ids(rows)) ELSE last

\* agent.main fetched rows, sent nothing and moved the watermark past them.
C27_Witness ==
    /\ Ended("ok")
    /\ prog = "agent"
    /\ sendResult = "skipped"
    /\ rows # <<>>
    /\ Watermark("agent") = MaxErrorId
    /\ delivered["agent"] = {}

\* C29: in ai_agent.run_once a failed, missing or empty answer of the
\* summarization service does not end the cycle: the summary is the fallback
\* one, send_email is called, and a cycle that ends normally leaves the
\* watermark at new_last, as it does when the service answered.
C29_SummaryFailureUsesFallback ==
    /\ (prog = "ai_agent" /\ answer \in {"empty", "raised", "nokey"})
       => /\ summary = fallback_summary(rows, issues)
          /\ sendResult # "none"
          /\ outcome # "error"
    /\ (prog = "ai_agent" /\ answer # "none" /\ Ended("ok"))
       => Watermark("agent") = new_last(last, rows)

\* The service raised, the fallback summary was sent and the watermark moved.
C29_Witness ==
    /\ Ended("ok")
    /\ prog = "ai_agent"
    /\ answer = "raised"
    /\ summary = "rule-based summary"
    /\ sendResult = "sent"
    /\ rows # <<>>
    /\ Watermark("agent") = MaxErrorId

(***************************************************************************)
(* main.py : the retry decorator and the business operations.              *)
(* Durations are in tenths of a time unit: base_delay 0.8 is 8.            *)
(***************************************************************************)
DefaultMaxAttempts == 3

DefaultBaseDelay == 8

\* Mutant of TRANSIENT_ERRORS: 2601 is listed as retry-eligible too.
TRANSIENT_ERRORS_with_2601 ==
    {1205, 1222, 4060, 40197, 40501, 49918, 49919, 49920, 2601}

TRANSIENT_ERRORS == {1205, 1222, 4060, 40197, 40501, 49918, 49919, 49920}

BUSINESS_ERRORS == {50001, 50002, 50003, 2601}

\* text.replace('(', ' ').replace(')', ' ').replace('#', ' ')
\*     .replace('[', ' ').replace(']', ' ')
replace_seps(text) ==
    [i \in 1..Len(text) |->
        IF text[i] \in {"(", ")", "#", "[", "]"} THEN " " ELSE text[i]]

\* str.split(): the maximal runs of non-whitespace characters, in order.
RECURSIVE split_ws(_, _)
split_ws(text, cur) ==
    IF text = <<>> THEN (IF cur = <<>> THEN <<>> ELSE <<cur>>)
    ELSE IF Head(text) = " "
         THEN (IF cur = <<>> THEN <<>> ELSE <<cur>>) \o split_ws(Tail(text), <<>>)
         ELSE split_ws(Tail(text), Append(cur, Head(text)))

split(text) == split_ws(text, <<>>)

\* for tok in ...: if tok.isdigit(): return int(tok)
\* Returns <<n>>, raises ValueError out of int(tok), or ends without a
\* return (None).
RECURSIVE first_digit_token(_)
first_digit_token(toks) ==
    IF toks = <<>> THEN Returns(None)
    ELSE IF isdigit(Head(toks))
         THEN (IF int_raises(Head(toks)) THEN Raises
               ELSE Returns(<<int(Head(toks))>>))
         ELSE first_digit_token(Tail(toks))


\* The failures the database collaborator can raise, as pyodbc.Error args.
Codes == TRANSIENT_ERRORS \cup BUSINESS_ERRORS \cup {2627}

Msg == <<"e", "r", "r">>

SqlState == <<"H", "Y", "0", "0", "0">>

\* "[40001] err (1205)": a numeric token precedes the native error number.
StateFirst == <<"[">> \o str(40001) \o <<"]", " ">> \o Msg
                 \o <<" ", "(">> \o str(1205) \o <<")">>

\* "err ^2 (1205)": a token isdigit() accepts and int() rejects comes first.
SuperFirst == Msg \o <<" ", SuperTwo, " ", "(">> \o str(1205) \o <<")">>
\* text = str(ex.args[1]) if len(ex.args) > 1 else str(ex)
Exceptions ==
    {[args |-> <<SqlState, Msg \o <<" ", "(">> \o str(c) \o <<")">>>>] : c \in Codes}
    \cup {[args |-> <<Msg \o <<"#">> \o str(c)>>] : c \in {1205, 50003, 2627}}
    \cup { [args |-> <<SqlState, StateFirst>>],
           [args |-> <<SqlState, SuperFirst>>],
           [args |-> <<Msg \o <<" ", SuperTwo>>>>],
           [args |-> <<str(1205), Msg>>],
           [args |-> <<Msg \o <<" ", "x", "1">>>>],
           [args |-> <<>>] }

ex_text(ex) ==
    IF Len(ex.args) > 1 THEN ex.args[2]
    ELSE IF Len(ex.args) = 1 THEN ex.args[1] ELSE <<>>

\* The body of the try block of _extract_errnum.
scan_errnum(ex) == first_digit_token(split(replace_seps(ex_text(ex))))

\* The scan of every failure of the model, computed once.
Scanned == [ex \in Exceptions |-> scan_errnum(ex)]

\* Mutant of _extract_errnum_call: no try/except around the scan.
_extract_errnum_uncaught(ex) == Scanned[ex]

\* try: <scan> except Exception: pass
\* return None
_extract_errnum_call(ex) ==
    IF Scanned[ex].raised THEN Returns(None) ELSE Scanned[ex]

\* The extracted error number as an optional value: None or <<n>>.
_extract_errnum(ex) == _extract_errnum_call(ex).value

is_business_error(ex) == InSet(_extract_errnum(ex), BUSINESS_ERRORS)

\* Mutant of retry_allowed: every failure with attempts left is retried.
retry_allowed_any(errnum, att, max_attempts) == att < max_attempts

\* Mutant of retry_allowed: attempt <= max_attempts.
retry_allowed_le(errnum, att, max_attempts) ==
    InSet(errnum, TRANSIENT_ERRORS) /\ att <= max_attempts

\* if errnum in TRANSIENT_ERRORS and attempt < max_attempts:
retry_allowed(errnum, att, max_attempts) ==
    InSet(errnum, TRANSIENT_ERRORS) /\ att < max_attempts

\* Mutant of backoff_delay: base_delay ** attempt (truncated to tenths).
RECURSIVE backoff_delay_pow(_, _)
backoff_delay_pow(base_delay, att) ==
    IF att <= 1 THEN base_delay
    ELSE (base_delay * backoff_delay_pow(base_delay, att - 1)) \div 10

\* Mutant of backoff_delay: the attempt number is not multiplied in.
backoff_delay_const(base_delay, att) == base_delay

\* delay = base_delay * attempt
backoff_delay(base_delay, att) == base_delay * att

Kinds == {"deposit", "withdraw", "transfer"}

\* @with_retry() is applied with its default base_delay only.
BaseDelays == {DefaultBaseDelay}

\* Where an invocation fails: "connect" is get_conn() / conn.cursor(), before
\* the try block; "execute" is cur.execute(...) or conn.commit(), inside it.
Sites == {"connect", "execute"}

\* The business errors are raised by the stored procedures (and 2601 by their
\* inserts): opening a connection raises none of them.
ConnectExceptions == {ex \in Exceptions : ~is_business_error(ex)}

RaisedAt(site) ==
    IF site = "connect" THEN ConnectExceptions ELSE Exceptions

\* Mutant of fn_on_error: the business branch re-raises like the others.
fn_on_error_reraise(site, ex) == "raise"

\* One failed invocation of deposit / withdraw / transfer.  A failure of
\* get_conn() is raised before the try block; a failure of cur.execute is
\* rolled back and then returned as False (business) or re-raised.
fn_on_error(site, ex) ==
    IF site = "execute" /\ is_business_error(ex) THEN "False" ELSE "raise"

\* Mutant of fn_txn: the business branch returns without conn.rollback().
fn_txn_business_open(site, ex) ==
    IF site = "connect" THEN "none"
    ELSE IF is_business_error(ex) THEN "open" ELSE "rolledback"

\* The transaction of a failed invocation when fn returns or raises:
\* except pyodbc.Error as ex: conn.rollback() comes first in the handler.
fn_txn(site, ex) ==
    IF site = "connect" THEN "none" ELSE "rolledback"

\* gen_ref(prefix): prefix, "-" and the first 12 hex digits of a new uuid4,
\* which u stands for.
gen_ref(prefix, u) == [prefix |-> prefix, hex |-> u]

\* The prefix each operation passes to gen_ref.
RefPrefix(kind) ==
    IF kind = "deposit" THEN "dep"
    ELSE IF kind = "withdraw" THEN "wd" ELSE "tx"

\* The ref argument of a call: omitted (None) or a token of the caller.
CallerRefs == {None, <<[prefix |-> "caller", hex |-> 0]>>}

\* Mutant of fn_ref: the token is generated once per call, outside the body.
fn_ref_once(ref, kind, n) ==
    IF ref = None THEN gen_ref(RefPrefix(kind), 1) ELSE ref[1]

\* if ref is None: ref = gen_ref(...), in the n-th invocation of a call; the
\* uuid4 of each invocation is a new one.
fn_ref(ref, kind, n) ==
    IF ref = None THEN gen_ref(RefPrefix(kind), n) ELSE ref[1]

\* A caller invokes a wrapped operation: wrapper() starts with attempt = 1.
call_begin ==
    /\ rpc = "idle"
    /\ \E k \in Kinds, m \in 0..MaxMaxAttempts, b \in BaseDelays,
          r \in CallerRefs :
          op' = [kind |-> k, max_attempts |-> m, base_delay |-> b, ref |-> r]
    /\ rpc' = "call"
    /\ attempt' = 1
    /\ delay' = 0
    /\ calls' = 0
    /\ errs' = <<>>
    /\ delays' = <<>>
    /\ result' = "none"
    /\ failure' = None
    /\ txn' = "none"
    /\ refs' = <<>>
    /\ UNCHANGED <<pollerVars, libVars>>

\* return fn(*args, **kwargs): the stored procedure ran and was committed.
attempt_ok ==
    /\ rpc = "call"
    /\ calls' = calls + 1
    /\ refs' = Append(refs, fn_ref(op.ref, op.kind, calls + 1))
    /\ result' = "Success"
    /\ txn' = "committed"
    /\ rpc' = "done"
    /\ UNCHANGED <<op, attempt, delay, errs, delays, failure>>
    /\ UNCHANGED <<pollerVars, libVars>>

\* fn raised pyodbc.Error or returned False after its rollback.
attempt_fails ==
    /\ rpc = "call"
    /\ calls' = calls + 1
    /\ refs' = Append(refs, fn_ref(op.ref, op.kind, calls + 1))
    /\ \E site \in Sites :
       \E ex \in RaisedAt(site) :
          /\ failure' = <<[site |-> site, ex |-> ex]>>
          /\ txn' = fn_txn(site, ex)
          /\ errs' = Append(errs, _extract_errnum(ex))
          /\ IF _extract_errnum_call(ex).raised
             THEN /\ result' = "ScanError"
                  /\ rpc' = "done"
                  /\ UNCHANGED delay
             ELSE IF fn_on_error(site, ex) = "False"
             THEN /\ result' = "BusinessRejection"
                  /\ rpc' = "done"
                  /\ UNCHANGED delay
             ELSE IF retry_allowed(_extract_errnum(ex), attempt, op.max_attempts)
                  THEN /\ delay' = backoff_delay(op.base_delay, attempt)
                       /\ rpc' = "sleep"
                       /\ UNCHANGED result
                  ELSE /\ result' = "FatalError"
                       /\ rpc' = "done"
                       /\ UNCHANGED delay
    /\ UNCHANGED <<op, attempt, delays>>
    /\ UNCHANGED <<pollerVars, libVars>>

\* Mutant of sleep_done: attempt is not incremented.
sleep_done_no_increment ==
    /\ rpc = "sleep"
    /\ delays' = Append(delays, delay)
    /\ rpc' = "call"
    /\ UNCHANGED <<op, attempt, delay, calls, errs, result, failure, txn, refs>>
    /\ UNCHANGED <<pollerVars, libVars>>

\* time.sleep(delay); attempt += 1; continue
sleep_done ==
    /\ rpc = "sleep"
    /\ delays' = Append(delays, delay)
    /\ attempt' = attempt + 1
    /\ rpc' = "call"
    /\ UNCHANGED <<op, delay, calls, errs, result, failure, txn, refs>>
    /\ UNCHANGED <<pollerVars, libVars>>

\* wrapper() has returned or raised: its frame and locals are gone, and the
\* caller may invoke an operation again.
call_return ==
    /\ rpc = "done"
    /\ op' = [kind |-> "none", max_attempts |-> 0, base_delay |-> 0,
              ref |-> None]
    /\ rpc' = "idle"
    /\ attempt' = 0
    /\ delay' = 0
    /\ calls' = 0
    /\ errs' = <<>>
    /\ delays' = <<>>
    /\ result' = "none"
    /\ failure' = None
    /\ txn' = "none"
    /\ refs' = <<>>
    /\ UNCHANGED <<pollerVars, libVars>>

NextRetry ==
    \/ call_begin
    \/ attempt_ok
    \/ attempt_fails
    \/ sleep_done
    \/ call_return

\* The pollers stay idle: their installation does not matter here.
InitRetry == Init /\ install = "agent"

SpecRetry == InitRetry /\ [][NextRetry]_vars

\* The wrapped function returns or raises, and time.sleep returns.
SpecRetryFair ==
    /\ SpecRetry
    /\ WF_vars(attempt_ok \/ attempt_fails)
    /\ WF_vars(sleep_done)

(***************************************************************************)
(* Properties of the retry decorator.                                      *)
(***************************************************************************)
AllFailedWith(c) ==
    errs # <<>> /\ \A i \in 1..Len(errs) : errs[i] = <<c>>

\* C8: with max_attempts >= 1, a call all of whose invocations fail with the
\* same retry-eligible code invokes the operation exactly max_attempts times
\* and then ends with the failure raised to the caller.
C8_TransientExhaustsAttempts ==
    \A c \in TRANSIENT_ERRORS :
        (rpc = "done" /\ result # "Success" /\ op.max_attempts >= 1
            /\ AllFailedWith(c))
        => (calls = op.max_attempts /\ result = "FatalError")

\* deposit with the default wrapper failed three times with 1205 and raised.
C8_Witness ==
    /\ rpc = "done"
    /\ result = "FatalError"
    /\ op.max_attempts = DefaultMaxAttempts
    /\ AllFailedWith(1205)
    /\ calls = DefaultMaxAttempts

C10_SuccessAfterTransientFailures ==
    /\ (rpc = "done" /\ result = "Success"
          /\ \A i \in 1..Len(errs) : InSet(errs[i], TRANSIENT_ERRORS))
        => /\ calls = Len(errs) + 1
           /\ delays = [i \in 1..Len(errs) |-> op.base_delay * i]
    /\ (rpc = "done" /\ result = "FatalError"
          /\ InSet(errs[Len(errs)], TRANSIENT_ERRORS))
        => calls >= op.max_attempts

\* Scenario B: 1205 twice, then success on the third attempt, max_attempts 3,
\* base_delay 0.8: three invocations, delays 0.8 then 1.6.
C10_Witness ==
    /\ rpc = "done"
    /\ result = "Success"
    /\ op.max_attempts = DefaultMaxAttempts
    /\ op.base_delay = DefaultBaseDelay
    /\ errs = << <<1205>>, <<1205>> >>
    /\ calls = 3
    /\ delays = <<8, 16>>

\* The last invocation of the wrapped operation failed.
JustFailed ==
    /\ failure # None
    /\ rpc = "sleep" \/ (rpc = "done" /\ result # "Success")

LastErr == errs[Len(errs)]

NoCode(e) == ~InSet(e, TRANSIENT_ERRORS) /\ ~InSet(e, BUSINESS_ERRORS)

\* C11: a failed invocation of deposit / withdraw / transfer whose code is in
\* the business set ends the call at once with BusinessRejection, a returned
\* value: no delay is slept for it and the operation is not invoked again;
\* when it is the first failure the call made one invocation and no delay.
C11_BusinessRejectedAtOnce ==
    \A c \in BUSINESS_ERRORS :
        (JustFailed /\ LastErr = <<c>>)
        => /\ rpc = "done"
           /\ result = "BusinessRejection"
           /\ calls = Len(errs)
           /\ Len(delays) = Len(errs) - 1
           /\ Len(errs) = 1 => (calls = 1 /\ delays = <<>>)

\* withdraw failed once with the duplicate-key code 2601: rejected at once.
C11_Witness ==
    /\ rpc = "done"
    /\ op.kind = "withdraw"
    /\ result = "BusinessRejection"
    /\ errs = << <<2601>> >>
    /\ calls = 1
    /\ delays = <<>>

\* C12: the transaction of an invocation is committed only when the stored
\* procedure call succeeded; when an invocation fails its transaction has
\* been rolled back (none exists when the connection could not be opened)
\* by the time BusinessRejection is returned, the failure is raised to the
\* caller, the retry delay starts or the next invocation starts.
C12_RollbackBeforeOutcome ==
    /\ (rpc = "done" /\ result = "Success") => txn = "committed"
    /\ txn = "committed" => (rpc = "done" /\ result = "Success")
    /\ JustFailed
        => /\ txn \in {"none", "rolledback"}
           /\ failure[1].site = "execute" => txn = "rolledback"
    /\ (rpc = "call" /\ calls > 0) => txn \in {"none", "rolledback"}
    /\ result = "BusinessRejection" => txn = "rolledback"

\* Scenario C: 50003 fails once: BusinessRejection, no delay, rolled back.
C12_Witness ==
    /\ rpc = "done"
    /\ result = "BusinessRejection"
    /\ errs = << <<50003>> >>
    /\ calls = 1
    /\ delays = <<>>
    /\ failure[1].site = "execute"
    /\ txn = "rolledback"

\* C13: a failure whose extracted code is in neither set, or is missing,
\* is raised to the caller without a delay and without another invocation
\* (one invocation in all when it is the first failure); a retry-eligible
\* failure on an attempt numbered max_attempts or more is raised as well;
\* a call ends in Success only when its last invocation succeeded.
C13_UnknownOrExhaustedIsFatal ==
    /\ (JustFailed /\ NoCode(LastErr))
        => /\ rpc = "done"
           /\ result = "FatalError"
           /\ calls = Len(errs)
           /\ Len(delays) = Len(errs) - 1
           /\ Len(errs) = 1 => (calls = 1 /\ delays = <<>>)
    /\ (JustFailed /\ InSet(LastErr, TRANSIENT_ERRORS)
            /\ attempt >= op.max_attempts)
        => (rpc = "done" /\ result = "FatalError")
    /\ (rpc = "done" /\ result = "Success")
        => /\ calls = Len(errs) + 1
           /\ \A i \in 1..Len(errs) : InSet(errs[i], TRANSIENT_ERRORS)

\* transfer failed once with a code of neither set (2627) and raised.
C13_Witness ==
    /\ rpc = "done"
    /\ op.kind = "transfer"
    /\ result = "FatalError"
    /\ errs = << <<2627>> >>
    /\ calls = 1
    /\ delays = <<>>
    /\ txn = "rolledback"

\* The text of the failure has no token made of decimal digits only.
NoDigitToken(ex) ==
    LET toks == split(replace_seps(ex_text(ex)))
    IN  \A i \in 1..Len(toks) :
            \E j \in 1..Len(toks[i]) : ~IsDigitChar(toks[i][j])

\* C14: _extract_errnum never raises, whatever the failure; for a failure
\* whose text has no all-digit token it returns None, and the failure is then
\* neither retried nor returned as a business rejection: it is raised.
C14_ScanNeverRaises ==
    JustFailed
    => /\ ~_extract_errnum_call(failure[1].ex).raised
       /\ result # "ScanError"
       /\ NoDigitToken(failure[1].ex)
           => /\ LastErr = None
              /\ rpc = "done"
              /\ result = "FatalError"

\* The only numeric-looking token of the failure is one int() rejects: the
\* ValueError stays inside _extract_errnum and the failure is raised.
C14_Witness ==
    /\ rpc = "done"
    /\ result = "FatalError"
    /\ failure = <<[site |-> "execute", ex |-> [args |-> <<Msg \o <<" ", SuperTwo>>>>]]>>
    /\ errs = <<None>>
    /\ calls = 1

\* C23: no code is both retry-eligible and a business code, and a failed
\* invocation whose code is 2601 is followed by no delay and no retry.
C23_SetsDisjoint ==
    /\ TRANSIENT_ERRORS \cap BUSINESS_ERRORS = {}
    /\ 2601 \in BUSINESS_ERRORS \ TRANSIENT_ERRORS
    /\ (JustFailed /\ LastErr = <<2601>>)
        => (rpc = "done" /\ calls = Len(errs) /\ Len(delays) = Len(errs) - 1)

\* A retried 1205, then 2601 from the stored procedure: the call ends there.
C23_Witness ==
    /\ rpc = "done"
    /\ result = "BusinessRejection"
    /\ errs = << <<1205>>, <<2601>> >>
    /\ calls = 2
    /\ delays = <<DefaultBaseDelay>>

\* The tokens of the text of a failure.
Tokens(ex) == split(replace_seps(ex_text(ex)))

IsNumber(tok) == tok # <<>> /\ \A i \in 1..Len(tok) : IsDigitChar(tok[i])

\* The value of the first token made of decimal digits only.
FirstNumber(ex) ==
    LET toks == Tokens(ex)
        k == CHOOSE i \in 1..Len(toks) :
                 IsNumber(toks[i]) /\ \A j \in 1..(i - 1) : ~IsNumber(toks[j])
    IN  int(toks[k])

Max1(n) == IF n > 1 THEN n ELSE 1

\* Within a call attempt changes only by the increment that follows a sleep.
AttemptCounts ==
    (rpc \in {"call", "sleep"})
    => (attempt' = (IF rpc = "sleep" /\ rpc' = "call"
                    THEN attempt + 1 ELSE attempt))

\* C25: a call invokes the wrapped function at most max(1, max_attempts)
\* times and at least once before it ends, attempt is the number of the
\* current invocation and changes only by the increment after a sleep, and
\* every call that has started ends.
C25_CallTerminates ==
    /\ [](calls <= Max1(op.max_attempts))
    /\ [](rpc = "done" => calls >= 1)
    /\ [](rpc = "sleep" => attempt = calls)
    /\ [](rpc = "call" => attempt = calls + 1)
    /\ [][AttemptCounts]_vars
    /\ (rpc = "call") ~> (rpc = "done")

\* A wrapper with max_attempts = 0 invoked the operation once, on a
\* retry-eligible failure, and raised it.
C25_Witness ==
    /\ rpc = "done"
    /\ op.max_attempts = 0
    /\ calls = 1
    /\ attempt = 1
    /\ errs = << <<1205>> >>
    /\ result = "FatalError"

\* The last invocation reached cur.execute and passed its ref to the stored
\* procedure.
PassedRef ==
    /\ calls >= 1
    /\ rpc \in {"sleep", "done"}
    /\ (result = "Success" \/ (failure # None /\ failure[1].site = "execute"))

\* C28: a ref supplied by the caller is the ref of every invocation of the
\* call; with no ref supplied every invocation generates its own token, so
\* no two invocations of the call have the same one.
C28_RefPerAttempt ==
    /\ Len(refs) = calls
    /\ op.ref # None => \A i \in 1..Len(refs) : refs[i] = op.ref[1]
    /\ op.ref = None =>
           /\ \A i \in 1..Len(refs) :
                  refs[i] = gen_ref(RefPrefix(op.kind), i)
           /\ \A i, j \in 1..Len(refs) : refs[i] = refs[j] => i = j

\* Two invocations with no ref supplied, the second one reaching the stored
\* procedure with a token of its own.
C28_Witness ==
    /\ PassedRef
    /\ op.ref = None
    /\ op.kind = "transfer"
    /\ calls = 2
    /\ refs = <<gen_ref("tx", 1), gen_ref("tx", 2)>>
    /\ result = "Success"

(***************************************************************************)
(* SpecReport : classify_and_plan and the report builders applied to drawn *)
(* inputs.                                                                 *)
(***************************************************************************)
\* ErrorNumber values: the codes of the display table, codes outside it,
\* NULL, and texts (digits, letters, empty, U+00B2).
NumValues ==
    {IntNum(n) : n \in {2601, 2627, 50003, 1205, 1222, 50001, 40197, 0, -1}}
    \cup {NullNum, StrNum(str(1205)), StrNum(str(7)), StrNum(<<"a", "b">>),
          StrNum(<<>>), StrNum(<<SuperTwo>>)}

ProcNames == {None, <<"">>, <<"usp_Deposit">>}

Messages == {"m1", "m2"}

\* The ErrorNumber values of the rows handed to the report builders.
ReportNums ==
    {IntNum(50003), IntNum(1205), IntNum(0), NullNum, StrNum(<<SuperTwo>>)}

FindingValues == {"f1", "f2"}

SeqsUpTo(S, n) == UNION {[1..k -> S] : k \in 0..n}

\* Rows as fetch_new_errors returns them: ErrorIDs ascending and distinct.
RowsOf(nums) ==
    [i \in 1..Len(nums) |->
        ErrorRow(MinErrorId + i - 1, <<"usp_Deposit">>, nums[i], "m1")]

\* The inputs drawn: one row of any ErrorNumber, ProcName and message, or a
\* list of rows and a list of findings.
ReportInputs ==
    {Applied("none", <<ErrorRow(MinErrorId, proc, num, msg)>>, <<>>,
             Returns(None)) :
        num \in NumValues, proc \in ProcNames, msg \in Messages}
    \cup {Applied("none", RowsOf(nums), fs, Returns(None)) :
            nums \in SeqsUpTo(ReportNums, MaxItems),
            fs \in SeqsUpTo(FindingValues, MaxItems)}

InitReport ==
    /\ InitPoller /\ install = "agent"
    /\ InitRetryIdle
    /\ lastSet = [sl \in Slots |-> None]
    /\ pure \in ReportInputs

\* sev, plan = classify_and_plan(e), for the first row drawn
apply_classify_and_plan ==
    /\ pure.fn = "none"
    /\ pure.errors # <<>>
    /\ pure' = [pure EXCEPT !.fn = "classify_and_plan",
                            !.res = classify_and_plan(pure.errors[1])]
    /\ UNCHANGED <<pollerVars, retryVars, lastSet>>

\* html = html_report(rows, issues)
apply_html_report ==
    /\ pure.fn = "none"
    /\ pure' = [pure EXCEPT !.fn = "html_report",
                            !.res = html_report_call(pure.errors, pure.findings)]
    /\ UNCHANGED <<pollerVars, retryVars, lastSet>>

\* html = render_email_html(summary, err_rows, health_rows)
apply_render_email_html ==
    /\ pure.fn = "none"
    /\ \E src \in {"ai", "fallback"} :
          pure' = [pure EXCEPT !.fn = "render_email_html",
                               !.res = Returns(render_email_html(
                                           src, pure.errors, pure.findings))]
    /\ UNCHANGED <<pollerVars, retryVars, lastSet>>

\* body = f"Time: ...{fmt_errors(rows)}...{fmt_health(issues)}"
apply_monitor_body ==
    /\ pure.fn = "none"
    /\ pure' = [pure EXCEPT !.fn = "monitor_body",
                            !.res = Returns(<<monitor_body(pure.errors,
                                                          pure.findings)>>)]
    /\ UNCHANGED <<pollerVars, retryVars, lastSet>>

NextReport ==
    \/ apply_classify_and_plan
    \/ apply_html_report
    \/ apply_render_email_html
    \/ apply_monitor_body

SpecReport == InitReport /\ [][NextReport]_vars

(***************************************************************************)
(* SpecStore : the watermark stores driven through their get and set       *)
(* functions, with process restarts in between.                            *)
(***************************************************************************)
\* Values stored: 0, one-digit and two-digit numbers, the ErrorIDs.
StoreValues == {0, 9, 10} \cup ErrorIds

cycleVars ==
    <<install, errorLog, prog, pc, last, rows, issues, smtpOk, sendIdle,
      sendResult, outcome, delivered, refetch, answer, summary, loop>>

\* Whether a set of the key inserts the row or overwrites it.
HowSet(tbl, key) ==
    IF \E r \in tbl : r[1] = key THEN "update" ELSE "insert"

\* agent.py: set_state(key, str(v))
call_set_state ==
    /\ \E key \in {KEY, OtherKey}, v \in StoreValues :
          /\ agentState' = set_state(agentState, key, str(v))
          /\ lastSet' = [lastSet EXCEPT ![<<"agent", key>>] =
                                           <<v, HowSet(agentState, key)>>]
    /\ pure' = NoneApplied
    /\ UNCHANGED <<cycleVars, monitorState, retryVars>>

\* ai_agent.py: state_set_last_id(v)
call_state_set_last_id ==
    /\ \E v \in StoreValues :
          /\ agentState' = state_set_last_id(agentState, v)
          /\ lastSet' = [lastSet EXCEPT ![<<"agent", KEY>>] =
                                           <<v, HowSet(agentState, KEY)>>]
    /\ pure' = NoneApplied
    /\ UNCHANGED <<cycleVars, monitorState, retryVars>>

\* monitor_errors.py: set_last_id(v)
call_set_last_id ==
    /\ \E v \in StoreValues :
          /\ monitorState' = set_last_id(monitorState, v)
          /\ lastSet' = [lastSet EXCEPT ![<<"monitor", KEY>>] =
                                           <<v, HowSet(monitorState, KEY)>>]
    /\ pure' = NoneApplied
    /\ UNCHANGED <<cycleVars, agentState, retryVars>>

\* agent.py: int(get_state(key, "0"))
call_get_state ==
    /\ \E key \in {KEY, OtherKey} :
          pure' = [Applied("get_state", <<>>, <<>>,
                           Returns(<<int(get_state(agentState, key, str(0)))>>))
                     EXCEPT !.key = key]
    /\ UNCHANGED <<pollerVars, retryVars, lastSet>>

\* ai_agent.py: state_get_last_id()
call_state_get_last_id ==
    /\ pure' = [Applied("state_get_last_id", <<>>, <<>>,
                        Returns(<<state_get_last_id(agentState)>>))
                  EXCEPT !.key = KEY]
    /\ UNCHANGED <<pollerVars, retryVars, lastSet>>

\* monitor_errors.py: get_last_id()
call_get_last_id ==
    /\ pure' = [Applied("get_last_id", <<>>, <<>>,
                        Returns(<<get_last_id(monitorState)>>))
                  EXCEPT !.key = KEY]
    /\ UNCHANGED <<pollerVars, retryVars, lastSet>>

\* The process ends and a new one starts: the sqlite files are all it keeps.
process_restart ==
    /\ pure # NoneApplied
    /\ pure' = NoneApplied
    /\ UNCHANGED <<pollerVars, retryVars, lastSet>>

NextStore ==
    \/ call_set_state
    \/ call_state_set_last_id
    \/ call_set_last_id
    \/ call_get_state
    \/ call_state_get_last_id
    \/ call_get_last_id
    \/ process_restart

SpecStore == InitRetry /\ [][NextStore]_vars

(***************************************************************************)
(* Properties of the classifier and of the report builders.                *)
(***************************************************************************)
DisplayCodes == {2601, 2627, 50003, 1205, 1222}

\* The ErrorNumber value is the code c, as an int or as its decimal text.
CodeIs(num, c) ==
    \/ num.t = "int" /\ num.n = c
    \/ num.t = "str" /\ num.s = str(c)

\* An integer outside the display table, a missing code or a non-numeric one.
OutsideTables(num) == \A c \in DisplayCodes : ~CodeIs(num, c)

Classified == pure.fn = "classify_and_plan"

ClsRow == pure.errors[1]

\* C15: for every code outside the display table, for a missing code and for
\* a non-numeric code, whatever the procedure name and the message,
\* classify_and_plan returns the default plan with severity P2, echoing the
\* procedure and the message, and does not raise.
C15_ClassifyTotal ==
    (Classified /\ OutsideTables(ClsRow.ErrorNumber))
    => /\ ~pure.res.raised
       /\ pure.res.value[1].sev = "P2"
       /\ pure.res.value[1].text = "Investigate in SSMS"
       /\ pure.res.value[1].proc = proc_or_unknown(ClsRow.ProcName)
       /\ pure.res.value[1].msg = ClsRow.ErrorMessage

\* C16: 2601 and 2627 give P2 with the duplicate-key plan, 50003 gives P3
\* with the insufficient-funds plan, 1205 and 1222 give P2 with the
\* transient plan, and neither the procedure name nor the message shows in
\* the result.
C16_FixedMappings ==
    Classified
    => /\ (\E c \in {2601, 2627} : CodeIs(ClsRow.ErrorNumber, c))
           => pure.res = Returns(<<Plan("P2", "Duplicate reference detected", "", "")>>)
       /\ CodeIs(ClsRow.ErrorNumber, 50003)
           => pure.res = Returns(<<Plan("P3", "Insufficient funds", "", "")>>)
       /\ (\E c \in {1205, 1222} : CodeIs(ClsRow.ErrorNumber, c))
           => pure.res = Returns(<<Plan("P2", "Transient concurrency issue", "", "")>>)

\* 50003 with a NULL procedure name and message m2 is classified P3.
C16_Witness ==
    /\ Classified
    /\ ClsRow.ErrorNumber = IntNum(50003)
    /\ ClsRow.ProcName = None
    /\ ClsRow.ErrorMessage = "m2"
    /\ ~pure.res.raised
    /\ pure.res.value[1].sev = "P3"

\* C17: html_report returns None when there are neither new errors nor
\* findings and returns a report whenever there is one of either.
C17_ReportNullIffEmpty ==
    pure.fn = "html_report"
    => IF pure.errors = <<>> /\ pure.findings = <<>>
       THEN pure.res = Returns(None)
       ELSE ~pure.res.raised /\ pure.res.value # None

Builders == {"html_report", "render_email_html", "monitor_body"}

\* A builder was applied and returned a report.
Built == pure.fn \in Builders /\ ~pure.res.raised /\ pure.res.value # None

IsError(piece) == piece.tag = "error"

IsFinding(piece) == piece.tag = "finding"

ErrorsOut == SelectSeq(pure.res.value[1], IsError)

FindingsOut == SelectSeq(pure.res.value[1], IsFinding)

C19_ExplicitHealthOk ==
    (Built /\ pure.errors # <<>> /\ pure.findings = <<>>)
    => \E i \in 1..Len(pure.res.value[1]) :
           pure.res.value[1][i].tag = "health_ok"

(***************************************************************************)
(* Properties of the watermark stores.                                     *)
(***************************************************************************)
\* What a get of the slot must return: the value of its last set, else 0.
Expected(sl) == IF lastSet[sl] = None THEN 0 ELSE lastSet[sl][1]

TableOf(store) == IF store = "agent" THEN agentState ELSE monitorState

GetterStore ==
    IF pure.fn = "get_last_id" THEN "monitor" ELSE "agent"

\* C20: a get of a key never set returns 0; a get after set(key, v) returns
\* v, through sets of other keys and process restarts, until the next set of
\* that key; the first set of a key inserts its row and a later one
\* overwrites it, the table holding one row for the key.
C20_GetReturnsLastSet ==
    /\ pure.fn \in {"get_state", "state_get_last_id", "get_last_id"}
        => pure.res = Returns(<<Expected(<<GetterStore, pure.key>>)>>)
    /\ \A sl \in Slots :
          LET krows == {r \in TableOf(sl[1]) : r[1] = sl[2]}
          IN  /\ lastSet[sl] = None => krows = {}
              /\ lastSet[sl] # None => Cardinality(krows) = 1
    /\ Watermark("agent") = Expected(<<"agent", KEY>>)
    /\ Watermark("monitor") = Expected(<<"monitor", KEY>>)

\* After a second set of last_error_id in .agent_state.sqlite, with another
\* key set beside it, state_get_last_id returns the overwriting value.
C20_Witness ==
    /\ pure.fn = "state_get_last_id"
    /\ pure.res = Returns(<<MaxErrorId>>)
    /\ lastSet[<<"agent", KEY>>] = <<MaxErrorId, "update">>
    /\ lastSet[<<"agent", OtherKey>>] = <<9, "insert">>
    /\ lastSet[<<"monitor", KEY>>] = None

====
